---- MODULE Spec2Model ----
(***************************************************************************)
(* ProductsService (in-memory product store), KafkaProducerService and     *)
(* KafkaConsumerService of the nest-kafka CRUD demo.                       *)
(*                                                                         *)
(* Every async method is a chain of synchronous segments separated by its  *)
(* awaits.  A segment runs to completion: while one is in the middle (a    *)
(* call stands at "emit", between the store write and the call of emit)    *)
(* no other call takes a step.  The continuation of `await findOne(id)` is *)
(* a microtask, run in FIFO order; the continuation of `await              *)
(* producer.send(...)` runs when the broker client settles the send: an    *)
(* acknowledgement is I/O and so is handled only once the microtask queue  *)
(* is empty; a rejection may come at once.  Overlapping sends are settled  *)
(* by the client and the broker in any order.                              *)
(*                                                                         *)
(* Products are JavaScript objects: the Map, the locals of a call and the  *)
(* values handed to a caller hold references into `heap`.  The object a    *)
(* create or update call builds is named by that call.                     *)
(*                                                                         *)
(* Spec, SpecSeq, SpecAlias and SpecLifecycle follow the store and the     *)
(* producer; SpecConsumer follows the consumer against a topic that any    *)
(* producer may write; SpecGroup follows several processes whose           *)
(* consumers are members of the one consumer group.                        *)
(***************************************************************************)
EXTENDS Integers, Sequences, FiniteSets, TLC

\* ---------------------------------------------------------------- bounds
MaxCalls == 3
MaxIds == 2
MaxClock == 1
MaxTopic == 3
MaxLosses == 1

\* The consumer group: how many processes run the application, and how many
\* partitions the broker gave the topic.
MaxInstances == 2
MaxPartitions == 2

Calls == 1..MaxCalls
Ids == 1..MaxIds

\* Request bodies the callers send (already validated by the HTTP layer).
CreateDtos == {[name |-> "A", description |-> "x", price |-> 1]}

\* An optional field is the empty set when undefined, a singleton otherwise.
UpdateDtos ==
  {[name |-> {"B"}, description |-> {}, price |-> {}],
   [name |-> {}, description |-> {}, price |-> {2}]}

NoDto == [name |-> {}, description |-> {}, price |-> {}]

VARIABLES
  products,   \* the Map<string, Product>, as its entries in insertion order
  heap,       \* the Product objects built so far, by reference
  handles,    \* per call: the references its locals (and its caller) hold
  nextId,     \* the identifiers uuidv4 has handed out so far are 1..nextId-1
  clock,      \* the wall clock read by new Date()
  calls,      \* per call: position, operation, arguments, locals, result
  microtasks, \* calls suspended at `await this.findOne(id)`, oldest first
  sends,      \* every producer.send(...) made, in submission order
  topic,      \* the messages the broker appended, in append order
  mutations,  \* history: every write made to the store, in order
  producer,   \* KafkaProducerService: lifecycle position, connection calls
  listening,  \* bootstrap has come back from app.listen
  consumer,   \* KafkaConsumerService: lifecycle position, connection, loop,
              \* and (history) how it joined its group
  offset,     \* the messages of the topic the consumer has been through
  groupOffset, \* the offset the broker keeps for the consumer group
  dispatched, \* history: the topic positions handed to handleMessage so far
  log,        \* the console lines handleMessage has written (each kept once)
  partitioner, \* the partition the producer's client sends each key to
  members,    \* per process of the group: lifecycle position, read positions
  owner,      \* per partition: the member the group coordinator gave it to
  committed,  \* per partition: the offset the broker keeps for the group
  delivered   \* history: the messages handed to handleMessage, per process

storeVars ==
  <<products, heap, handles, nextId, clock, calls, microtasks, sends, mutations>>

producerVars == <<producer, listening>>

consumerVars == <<consumer, offset, groupOffset, dispatched, log>>

groupVars == <<partitioner, members, owner, committed, delivered>>

vars == <<storeVars, topic, producerVars, consumerVars, groupVars>>

\* ------------------------------------------------------------ the Map
\* An entry is a key and the value set under it (a reference to an object).
MapHas(m, id) == \E i \in 1..Len(m) : m[i].key = id

MapGet(m, id) == m[CHOOSE i \in 1..Len(m) : m[i].key = id].value

MapSetIfAbsent(m, id, e) ==
  IF MapHas(m, id) THEN m ELSE Append(m, [key |-> id, value |-> e])

\* Map.set: replaces the value of an existing key in place, appends a new key.
MapSet(m, id, e) ==
  IF MapHas(m, id)
    THEN [i \in 1..Len(m) |->
            IF m[i].key = id THEN [key |-> id, value |-> e] ELSE m[i]]
    ELSE Append(m, [key |-> id, value |-> e])

MapClear(m, id) == << >>

\* Map.delete: removes the key when present, does nothing otherwise.
MapDelete(m, id) == SelectSeq(m, LAMBDA e : e.key # id)

MapKeys(m) == {m[i].key : i \in 1..Len(m)}

\* Map.values(): the values in insertion order of their keys.
MapValues(m) == [i \in 1..Len(m) |-> m[i].value]

\* ------------------------------------------------------- ProductsService
NotFound == [error |-> "NotFound"]

\* A reference is named by the call whose object literal built the object.
Refs == Calls

Unallocated == [error |-> "Unallocated"]

ProductEventsMut(op) ==
  CASE op = "create" -> "product.created"
    [] op = "update" -> "product.updated"
    [] op = "remove" -> "product.updated"

\* PRODUCT_EVENTS, by the operation that emits each.
ProductEvents(op) ==
  CASE op = "create" -> "product.created"
    [] op = "update" -> "product.updated"
    [] op = "remove" -> "product.deleted"

NewProduct(id, dto, now) ==
  [id |-> id, name |-> dto.name, description |-> dto.description,
   price |-> dto.price, createdAt |-> now, updatedAt |-> now]

Pick(s) == CHOOSE x \in s : TRUE

ApplyUpdateAsNew(existing, dto, now) ==
  [id |-> existing.id,
   name |-> IF dto.name # {} THEN Pick(dto.name) ELSE existing.name,
   description |-> IF dto.description # {} THEN Pick(dto.description)
                   ELSE existing.description,
   price |-> IF dto.price # {} THEN Pick(dto.price) ELSE existing.price,
   createdAt |-> now,
   updatedAt |-> now]

\* { ...existing, ...(dto.f !== undefined && { f: dto.f }), updatedAt: new Date() }
ApplyUpdate(existing, dto, now) ==
  [id |-> existing.id,
   name |-> IF dto.name # {} THEN Pick(dto.name) ELSE existing.name,
   description |-> IF dto.description # {} THEN Pick(dto.description)
                   ELSE existing.description,
   price |-> IF dto.price # {} THEN Pick(dto.price) ELSE existing.price,
   createdAt |-> existing.createdAt,
   updatedAt |-> now]

FindOneOrBlank(m, id) ==
  IF MapHas(m, id) THEN heap[MapGet(m, id)]
  ELSE [id |-> id, name |-> "", description |-> "", price |-> 0,
        createdAt |-> 0, updatedAt |-> 0]

\* findOne's body: the stored product (the object the Map's reference names),
\* or the NotFoundException it throws.
FindOne(m, id) == IF MapHas(m, id) THEN heap[MapGet(m, id)] ELSE NotFound

\* findAll's body: Array.from(this.products.values()), a new array of the
\* stored objects.
FindAll(m) == [i \in 1..Len(m) |-> heap[MapValues(m)[i]]]

\* The references findOne and findAll hand out.
FindOneRef(m, id) == IF MapHas(m, id) THEN <<MapGet(m, id)>> ELSE << >>

FindAllRefs(m) == MapValues(m)

\* ---------------------------------------------------- KafkaProducerService
\* Date.prototype.toISOString / Date.prototype.toJSON: a string, not a Date.
ToISOString(d) == [iso |-> d]

\* JSON.stringify of { type, payload, timestamp }: the Date fields of the
\* payload are written as ISO strings.
Stringify(type, payload, now) ==
  [type |-> type,
   payload |-> [id |-> payload.id, name |-> payload.name,
                description |-> payload.description, price |-> payload.price,
                createdAt |-> ToISOString(payload.createdAt),
                updatedAt |-> ToISOString(payload.updatedAt)],
   timestamp |-> ToISOString(now)]

\* --------------------------------------------------------------- calls
Pending == [kind |-> "pending"]
Ok(v) == [kind |-> "ok", value |-> v]
Void == [void |-> TRUE]
NotFoundException == [kind |-> "NotFound"]
DeliveryFailed == [kind |-> "DeliveryFailed"]

IdleCall ==
  [pc |-> "idle", op |-> "none", id |-> 0, dto |-> NoDto, ent |-> NotFound,
   result |-> Pending]

\* new Date(): the clock never runs backwards; any amount of time may have
\* passed since it was last read.
NewDate(now) ==
  /\ now \in clock..MaxClock
  /\ clock' = now

\* A synchronous segment is in the middle: some call wrote the store and has
\* not yet called emit.
Running == \E c \in Calls : calls[c].pc = "emit"

InFlight(c) == calls[c].pc \in {"awaitFindOne", "emit", "awaitSend"}

\* Call slots are taken in order (they are only names for the calls).
CanStart(c) ==
  /\ listening
  /\ calls[c].pc = "idle"
  /\ \A d \in Calls : d < c => calls[d].pc # "idle"
  /\ ~Running

NoOffset == 0 - 1

\* The consumer has not joined its group yet.
NotJoined == [fresh |-> FALSE, backlog |-> NoOffset]

\* The processes that run the application, each with one
\* KafkaConsumerService of the same GROUP_ID, and the partitions of the topic.
Instances == 1..MaxInstances

NoInstance == 0

Partitions == 0..(MaxPartitions - 1)

NoPartition == 0 - 1

\* The keys the application's producer sends messages under.
EventKeys == {"product.created", "product.updated"}

\* A process whose consumer was constructed: it has read nothing.
NewMember == [pc |-> "constructed", pos |-> [p \in Partitions |-> 0]]

Init ==
  /\ products = << >>
  /\ heap = [r \in Refs |-> Unallocated]
  /\ handles = [c \in Calls |-> << >>]
  /\ producer = [pc |-> "constructed", connects |-> 0, disconnects |-> 0]
  /\ listening = FALSE
  /\ consumer = [pc |-> "constructed", conn |-> "none", loop |-> "off",
                 losses |-> 0, join |-> NotJoined]
  /\ offset = 0
  /\ groupOffset = NoOffset
  /\ dispatched = {}
  /\ log = {}
  /\ partitioner = [k \in EventKeys |-> NoPartition]
  /\ members = [i \in Instances |-> NewMember]
  /\ owner = [p \in Partitions |-> NoInstance]
  /\ committed = [p \in Partitions |-> NoOffset]
  /\ delivered = {}
  /\ nextId = 1
  /\ clock = 0
  /\ calls = [c \in Calls |-> IdleCall]
  /\ microtasks = << >>
  /\ sends = << >>
  /\ topic = << >>
  /\ mutations = << >>

\* create, up to the call of emit: builds the product and stores it.
CreateCall(c, dto) ==
  /\ CanStart(c)
  /\ nextId <= MaxIds
  /\ \E now \in 0..MaxClock :
       /\ NewDate(now)
       /\ LET product == NewProduct(nextId, dto, now) IN
            /\ heap' = [heap EXCEPT ![c] = product]
            /\ handles' = [handles EXCEPT ![c] = <<c>>]
            /\ products' = MapSet(products, product.id, c)
            /\ calls' = [calls EXCEPT ![c] =
                 [pc |-> "emit", op |-> "create", id |-> product.id,
                  dto |-> NoDto, ent |-> product, result |-> Pending]]
            /\ mutations' = Append(mutations,
                 [call |-> c, op |-> "create", id |-> product.id,
                  state |-> product])
  /\ nextId' = nextId + 1
  /\ UNCHANGED <<microtasks, sends, topic, producerVars, consumerVars,
                 groupVars>>

\* update and remove, up to `await this.findOne(id)`: findOne has run.
LookupCall(c, op, id, dto) ==
  /\ CanStart(c)
  /\ calls' = [calls EXCEPT ![c] =
       [pc |-> "awaitFindOne", op |-> op, id |-> id, dto |-> dto,
        ent |-> FindOne(products, id), result |-> Pending]]
  /\ handles' = [handles EXCEPT ![c] = FindOneRef(products, id)]
  /\ microtasks' = Append(microtasks, c)
  /\ UNCHANGED <<products, heap, nextId, clock, sends, topic, mutations,
                 producerVars, consumerVars, groupVars>>

UpdateCall(c, id, dto) == LookupCall(c, "update", id, dto)

RemoveCall(c, id) == LookupCall(c, "remove", id, NoDto)

\* The continuation of `await this.findOne(id)` of call c is the next microtask.
Resumes(c, op) ==
  /\ microtasks # << >>
  /\ Head(microtasks) = c
  /\ calls[c].op = op
  /\ ~Running
  /\ microtasks' = Tail(microtasks)

\* The awaited findOne threw: the call rejects with the NotFoundException.
ResumeNotFound(c) ==
  /\ calls' = [calls EXCEPT ![c].pc = "done", ![c].result = NotFoundException]
  /\ UNCHANGED <<products, heap, handles, clock, mutations>>

UpdateResumeInPlace(c) ==
  /\ Resumes(c, "update")
  /\ IF calls[c].ent = NotFound
       THEN ResumeNotFound(c)
       ELSE \E now \in 0..MaxClock :
              /\ NewDate(now)
              /\ LET updated == ApplyUpdate(calls[c].ent, calls[c].dto, now) IN
                   /\ heap' = [heap EXCEPT ![handles[c][1]] = updated]
                   /\ calls' = [calls EXCEPT ![c].pc = "emit",
                                             ![c].ent = updated]
                   /\ mutations' = Append(mutations,
                        [call |-> c, op |-> "update", id |-> calls[c].id,
                         state |-> updated])
                   /\ UNCHANGED <<products, handles>>
  /\ UNCHANGED <<nextId, sends, topic, producerVars, consumerVars, groupVars>>

\* update, from the awaited findOne to the call of emit.
UpdateResume(c) ==
  /\ Resumes(c, "update")
  /\ IF calls[c].ent = NotFound
       THEN ResumeNotFound(c)
       ELSE \E now \in 0..MaxClock :
              /\ NewDate(now)
              /\ LET updated == ApplyUpdate(calls[c].ent, calls[c].dto, now) IN
                   /\ heap' = [heap EXCEPT ![c] = updated]
                   /\ handles' = [handles EXCEPT ![c] = <<c>>]
                   /\ products' = MapSet(products, calls[c].id, c)
                   /\ calls' = [calls EXCEPT ![c].pc = "emit",
                                             ![c].ent = updated]
                   /\ mutations' = Append(mutations,
                        [call |-> c, op |-> "update", id |-> calls[c].id,
                         state |-> updated])
  /\ UNCHANGED <<nextId, sends, topic, producerVars, consumerVars, groupVars>>

\* remove, from the awaited findOne to the call of emit.  The history keeps
\* what the store held under id just before the delete.
RemoveResume(c) ==
  /\ Resumes(c, "remove")
  /\ IF calls[c].ent = NotFound
       THEN ResumeNotFound(c)
       ELSE /\ products' = MapDelete(products, calls[c].id)
            /\ calls' = [calls EXCEPT ![c].pc = "emit"]
            /\ mutations' = Append(mutations,
                 [call |-> c, op |-> "remove", id |-> calls[c].id,
                  state |-> FindOne(products, calls[c].id)])
            /\ UNCHANGED <<heap, handles, clock>>
  /\ UNCHANGED <<nextId, sends, topic, producerVars, consumerVars, groupVars>>

EmitKeyedByName(c) ==
  /\ calls[c].pc = "emit"
  /\ \E now \in 0..MaxClock :
       /\ NewDate(now)
       /\ LET type == ProductEvents(calls[c].op) IN
            sends' = Append(sends,
              [call |-> c, eventType |-> type, payload |-> calls[c].ent,
               message |-> [key |-> calls[c].ent.name,
                            value |-> Stringify(type, calls[c].ent, now)]])
  /\ calls' = [calls EXCEPT ![c].pc = "awaitSend"]
  /\ UNCHANGED <<products, heap, handles, nextId, microtasks, topic, mutations,
                 producerVars, consumerVars, groupVars>>

\* this.kafkaProducer.emit(type, entity), up to `await this.producer.send`.
Emit(c) ==
  /\ calls[c].pc = "emit"
  /\ \E now \in 0..MaxClock :
       /\ NewDate(now)
       /\ LET type == ProductEvents(calls[c].op) IN
            sends' = Append(sends,
              [call |-> c, eventType |-> type, payload |-> calls[c].ent,
               message |-> [key |-> type,
                            value |-> Stringify(type, calls[c].ent, now)]])
  /\ calls' = [calls EXCEPT ![c].pc = "awaitSend"]
  /\ UNCHANGED <<products, heap, handles, nextId, microtasks, topic, mutations,
                 producerVars, consumerVars, groupVars>>

SendOf(c) == CHOOSE n \in 1..Len(sends) : sends[n].call = c

\* The send of call c is acknowledged by the broker: I/O, which is handled
\* only once no microtask is left.
Acknowledged(c) ==
  /\ calls[c].pc = "awaitSend"
  /\ producer.pc = "connected"
  /\ microtasks = << >>
  /\ ~Running

\* The send of call c fails: at once (the producer is not connected) or after
\* I/O (the broker is unreachable or rejects the message).
Fails(c) ==
  /\ calls[c].pc = "awaitSend"
  /\ ~Running

\* The broker appended the message and the send resolved: the call returns.
SendResolve(c) ==
  /\ Acknowledged(c)
  /\ topic' = Append(topic,
       [n |-> SendOf(c), key |-> sends[SendOf(c)].message.key,
        value |-> sends[SendOf(c)].message.value])
  /\ calls' = [calls EXCEPT ![c].pc = "done",
       ![c].result = IF calls[c].op = "remove" THEN Ok(Void)
                     ELSE Ok(calls[c].ent)]
  /\ UNCHANGED <<products, heap, handles, nextId, clock, microtasks, sends,
                 mutations, producerVars, consumerVars, groupVars>>

SendRejectRollback(c) ==
  /\ Fails(c)
  /\ calls' = [calls EXCEPT ![c].pc = "done", ![c].result = DeliveryFailed]
  /\ products' = IF calls[c].op = "remove"
                   THEN MapSet(products, calls[c].id, handles[c][1])
                   ELSE MapDelete(products, calls[c].id)
  /\ UNCHANGED <<heap, handles, nextId, clock, microtasks, sends, topic,
                 mutations, producerVars, consumerVars, groupVars>>

\* The send rejected: nothing catches it, the call rejects with the error.
SendReject(c) ==
  /\ Fails(c)
  /\ calls' = [calls EXCEPT ![c].pc = "done", ![c].result = DeliveryFailed]
  /\ UNCHANGED <<products, heap, handles, nextId, clock, microtasks, sends,
                 topic, mutations, producerVars, consumerVars, groupVars>>

\* findOne called by a caller: it has no await, it settles at once.
FindOneCall(c, id) ==
  /\ CanStart(c)
  /\ LET found == FindOne(products, id) IN
       calls' = [calls EXCEPT ![c] =
         [pc |-> "done", op |-> "findOne", id |-> id, dto |-> NoDto,
          ent |-> found,
          result |-> IF found = NotFound THEN NotFoundException ELSE Ok(found)]]
  /\ handles' = [handles EXCEPT ![c] = FindOneRef(products, id)]
  /\ UNCHANGED <<products, heap, nextId, clock, microtasks, sends, topic,
                 mutations, producerVars, consumerVars, groupVars>>

\* findAll called by a caller.
FindAllCall(c) ==
  /\ CanStart(c)
  /\ calls' = [calls EXCEPT ![c] =
       [pc |-> "done", op |-> "findAll", id |-> 0, dto |-> NoDto,
        ent |-> NotFound, result |-> Ok(FindAll(products))]]
  /\ handles' = [handles EXCEPT ![c] = FindAllRefs(products)]
  /\ UNCHANGED <<products, heap, nextId, clock, microtasks, sends, topic,
                 mutations, producerVars, consumerVars, groupVars>>

\* ------------------------------------------- KafkaProducerService lifecycle
\* The framework runs each lifecycle hook once: onModuleInit before the
\* application listens, onModuleDestroy when the application is closed.
\* Lifecycle steps are tasks of their own: none runs inside a segment or
\* while a microtask is waiting.

\* onModuleInit, up to `await this.producer.connect()`.
ProducerOnModuleInit ==
  /\ producer.pc = "constructed"
  /\ producer' = [producer EXCEPT !.pc = "connecting",
                                  !.connects = producer.connects + 1]
  /\ UNCHANGED <<storeVars, topic, listening, consumerVars, groupVars>>

\* connect resolved: onModuleInit returns.
ProducerConnected ==
  /\ producer.pc = "connecting"
  /\ producer' = [producer EXCEPT !.pc = "connected"]
  /\ UNCHANGED <<storeVars, topic, listening, consumerVars, groupVars>>

\* connect rejected: onModuleInit rejects, and so does bootstrap.
ProducerConnectFails ==
  /\ producer.pc = "connecting"
  /\ producer' = [producer EXCEPT !.pc = "failed"]
  /\ UNCHANGED <<storeVars, topic, listening, consumerVars, groupVars>>

\* bootstrap: `await app.listen(3000)` comes back once the hooks have: from
\* here on callers reach the service.
Listen ==
  /\ ~listening
  /\ producer.pc = "connected"
  /\ listening' = TRUE
  /\ UNCHANGED <<storeVars, topic, producer, consumerVars, groupVars>>

\* onModuleDestroy, up to `await this.producer.disconnect()`.  Nothing tells
\* the store that the producer is gone, and nothing waits for the sends that
\* are in flight.
ProducerOnModuleDestroy ==
  /\ listening
  /\ producer.pc = "connected"
  /\ ~Running
  /\ microtasks = << >>
  /\ producer' = [producer EXCEPT !.pc = "disconnecting",
                                  !.disconnects = producer.disconnects + 1]
  /\ UNCHANGED <<storeVars, topic, listening, consumerVars, groupVars>>

\* disconnect resolved: onModuleDestroy returns.
ProducerDisconnected ==
  /\ producer.pc = "disconnecting"
  /\ ~Running
  /\ microtasks = << >>
  /\ producer' = [producer EXCEPT !.pc = "disconnected"]
  /\ UNCHANGED <<storeVars, topic, listening, consumerVars, groupVars>>

\* The identifiers a caller can name: those handed out so far, and one that
\* no product has (yet).
KnownIds == {id \in Ids : id <= nextId}

Start(c) ==
  \/ \E dto \in CreateDtos : CreateCall(c, dto)
  \/ \E id \in KnownIds, dto \in UpdateDtos : UpdateCall(c, id, dto)
  \/ \E id \in KnownIds : RemoveCall(c, id)
  \/ \E id \in KnownIds : FindOneCall(c, id)
  \/ FindAllCall(c)

Continue(c) ==
  \/ UpdateResume(c)
  \/ RemoveResume(c)
  \/ Emit(c)
  \/ SendResolve(c)
  \/ SendReject(c)

\* The application comes up.
Boot ==
  \/ ProducerOnModuleInit
  \/ ProducerConnected
  \/ ProducerConnectFails
  \/ Listen

\* The application is closed.
Shutdown ==
  \/ ProducerOnModuleDestroy
  \/ ProducerDisconnected

\* The application from its start, for as long as it is not closed.
Next ==
  \/ Boot
  \/ \E c \in Calls : Start(c)
  \/ \E c \in Calls : Continue(c)

Spec == Init /\ [][Next]_vars

\* The application from its start to after its close.
NextLifecycle ==
  \/ Next
  \/ Shutdown

SpecLifecycle == Init /\ [][NextLifecycle]_vars

\* ------------------------------------------------------------- callers
\* The references the caller of c was handed: create, update and findOne
\* return the object itself, findAll a new array of the stored objects.
Returned(c) ==
  IF /\ calls[c].pc = "done"
     /\ calls[c].result.kind = "ok"
     /\ calls[c].op \in {"create", "update", "findOne", "findAll"}
    THEN handles[c] ELSE << >>

\* What call d sees of its locals and its result in heap h.
Seen(d, h) ==
  [calls[d] EXCEPT
     !.ent = IF calls[d].op # "findAll" /\ handles[d] # << >>
               THEN h[handles[d][1]] ELSE calls[d].ent,
     !.result =
       IF calls[d].result.kind # "ok" \/ calls[d].op = "remove"
         THEN calls[d].result
       ELSE IF calls[d].op = "findAll"
         THEN Ok([i \in 1..Len(handles[d]) |-> h[handles[d][i]]])
       ELSE Ok(h[handles[d][1]])]

\* The caller of c assigns to a field of the i-th entity it was handed
\* (`entity.price = 9`): every holder of the object sees the assignment.
CallerMutates(c, i) ==
  /\ ~Running
  /\ i \in 1..Len(Returned(c))
  /\ heap[Returned(c)[i]].price # 9
  /\ heap' = [heap EXCEPT ![Returned(c)[i]].price = 9]
  /\ calls' = [d \in Calls |-> Seen(d, heap')]
  /\ UNCHANGED <<products, handles, nextId, clock, microtasks, sends, topic,
                 mutations, producerVars, consumerVars, groupVars>>

\* The application with callers that write into what they were handed.
NextAlias ==
  \/ Next
  \/ \E c \in Calls, i \in 1..MaxCalls : CallerMutates(c, i)

SpecAlias == Init /\ [][NextAlias]_vars

\* Callers that await each call before they make the next one.
NoneInFlight == \A c \in Calls : ~InFlight(c)

NextSeq ==
  \/ Boot
  \/ \E c \in Calls : NoneInFlight /\ Start(c)
  \/ \E c \in Calls : Continue(c)

SpecSeq == Init /\ [][NextSeq]_vars

\* ---------------------------------------------------- KafkaConsumerService
\* What a message of the topic may carry: the value of an envelope as emit
\* writes it, no bytes at all, bytes that are not JSON, and JSON that is not
\* an envelope.
EmptyValue == [raw |-> ""]
NotJson == [raw |-> "{oops"]
JsonNull == [raw |-> "null"]
JsonOther == [raw |-> "{\"a\":1}"]

Envelopes ==
  {Stringify(t, NewProduct(1, Pick(CreateDtos), 0), 0) :
     t \in {"product.created", "product.updated"}}

TopicValues == Envelopes \cup {EmptyValue, NotJson, JsonNull, JsonOther}

Undefined == [undefined |-> TRUE]
JsNull == [null |-> TRUE]

\* JSON.parse: the value it returns, or that it threw.  Dates stay the
\* strings they were written as.
JsonParse(value) ==
  IF "raw" \notin DOMAIN value THEN [threw |-> FALSE, event |-> value]
  ELSE IF value = JsonNull THEN [threw |-> FALSE, event |-> JsNull]
  ELSE IF value = JsonOther THEN [threw |-> FALSE, event |-> [a |-> 1]]
  ELSE [threw |-> TRUE, event |-> Undefined]

\* `${event.f}` for a field that holds a string: "undefined" for a field the
\* object lacks.
Interpolate(event, f) == IF f \in DOMAIN event THEN event[f] ELSE "undefined"

HandleMessageRethrows(message) ==
  IF message.value = EmptyValue THEN [lines |-> << >>, threw |-> FALSE]
  ELSE LET parsed == JsonParse(message.value) IN
    IF parsed.threw \/ parsed.event = JsNull
      THEN [lines |-> <<[level |-> "error",
                         text |-> "Failed to process Kafka message:"]>>,
            threw |-> TRUE]
      ELSE [lines |->
              <<[level |-> "log", text |-> Interpolate(parsed.event, "type")],
                [level |-> "log", text |-> "  Payload:"]>>,
            threw |-> FALSE]

\* handleMessage: the console lines it writes (of the first line, the event
\* type it shows), and whether it threw.  An empty value returns at once;
\* JSON.parse throwing, or reading event.type of null, lands in the catch,
\* which writes one error line.
HandleMessage(message) ==
  IF message.value = EmptyValue THEN [lines |-> << >>, threw |-> FALSE]
  ELSE LET parsed == JsonParse(message.value) IN
    IF parsed.threw \/ parsed.event = JsNull
      THEN [lines |-> <<[level |-> "error",
                         text |-> "Failed to process Kafka message:"]>>,
            threw |-> FALSE]
      ELSE [lines |->
              <<[level |-> "log", text |-> Interpolate(parsed.event, "type")],
                [level |-> "log", text |-> "  Payload:"]>>,
            threw |-> FALSE]

\* The position a member of the group starts to read from: the offset the
\* broker keeps for the group and, for a group without one, the start of the
\* topic (fromBeginning: true).
ResumeLatest == IF groupOffset = NoOffset THEN Len(topic) ELSE groupOffset

ResumeOffset == IF groupOffset = NoOffset THEN 0 ELSE groupOffset

ConsumerOnModuleInitNoAwait ==
  /\ consumer.pc = "constructed"
  /\ consumer' = [consumer EXCEPT !.pc = "awaitSubscribe",
                                  !.conn = "connecting"]
  /\ UNCHANGED <<storeVars, topic, producerVars, groupVars, offset, groupOffset,
                 dispatched, log>>

\* onModuleInit, up to `await this.consumer.connect()`.
ConsumerOnModuleInit ==
  /\ consumer.pc = "constructed"
  /\ consumer' = [consumer EXCEPT !.pc = "awaitConnect",
                                  !.conn = "connecting"]
  /\ UNCHANGED <<storeVars, topic, producerVars, groupVars, offset, groupOffset,
                 dispatched, log>>

\* connect resolved: onModuleInit goes on to `await this.consumer.subscribe`.
ConsumerConnected ==
  /\ consumer.pc = "awaitConnect"
  /\ consumer' = [consumer EXCEPT !.pc = "awaitSubscribe", !.conn = "open"]
  /\ UNCHANGED <<storeVars, topic, producerVars, groupVars, offset, groupOffset,
                 dispatched, log>>

\* subscribe resolved: onModuleInit goes on to `await this.consumer.run`.
ConsumerSubscribed ==
  /\ consumer.pc = "awaitSubscribe"
  /\ consumer.conn = "open"
  /\ consumer' = [consumer EXCEPT !.pc = "awaitRun"]
  /\ UNCHANGED <<storeVars, topic, producerVars, groupVars, offset, groupOffset,
                 dispatched, log>>

\* run resolved: the consumer has joined its group and its fetch loop is on;
\* onModuleInit writes its line and returns.
ConsumerRuns ==
  /\ consumer.pc = "awaitRun"
  /\ consumer.conn = "open"
  /\ consumer' = [consumer EXCEPT
       !.pc = "running", !.loop = "on",
       !.join = [fresh |-> groupOffset = NoOffset, backlog |-> Len(topic)]]
  /\ offset' = ResumeOffset
  /\ UNCHANGED <<storeVars, topic, producerVars, groupVars, groupOffset,
                 dispatched, log>>

\* connect, subscribe or run rejected (the broker cannot be reached, the
\* connection broke): nothing catches it, onModuleInit rejects there.
ConsumerInitFails ==
  /\ consumer.pc \in {"awaitConnect", "awaitSubscribe", "awaitRun"}
  /\ consumer' = [consumer EXCEPT !.pc = "failed", !.conn = "none"]
  /\ UNCHANGED <<storeVars, topic, producerVars, groupVars, offset, groupOffset,
                 dispatched, log>>

\* eachMessage: the loop hands the next message to handleMessage, which has
\* no await and so runs through.  A handler that threw would leave the
\* message unresolved and crash the loop.
EachMessage ==
  /\ consumer.loop = "on"
  /\ consumer.conn = "open"
  /\ offset < Len(topic)
  /\ LET handled == HandleMessage(topic[offset + 1]) IN
       /\ dispatched' = dispatched \cup {offset + 1}
       /\ log' = log \cup {[at |-> offset + 1,
                             level |-> handled.lines[i].level,
                             text |-> handled.lines[i].text] :
                              i \in 1..Len(handled.lines)}
       /\ IF handled.threw
            THEN /\ consumer' = [consumer EXCEPT !.loop = "crashed"]
                 /\ UNCHANGED offset
            ELSE /\ offset' = offset + 1
                 /\ UNCHANGED consumer
  /\ UNCHANGED <<storeVars, topic, producerVars, groupVars, groupOffset>>

\* The client commits the offsets of the messages it is through with
\* (autoCommit), some time after they were handled.
CommitOffsets ==
  /\ consumer.loop = "on"
  /\ consumer.conn = "open"
  /\ groupOffset # offset
  /\ groupOffset' = offset
  /\ UNCHANGED <<storeVars, topic, producerVars, groupVars, consumer, offset,
                 dispatched,
                 log>>

\* The connection to the broker is lost while the loop is on: the loop
\* crashes inside the client.  The service has registered no listener and
\* awaits nothing of the client any more: it is told nothing.
ConnectionLost ==
  /\ consumer.pc = "running"
  /\ consumer.conn = "open"
  /\ consumer.losses < MaxLosses
  /\ consumer' = [consumer EXCEPT !.conn = "lost", !.loop = "crashed",
                                  !.losses = consumer.losses + 1]
  /\ UNCHANGED <<storeVars, topic, producerVars, groupVars, offset, groupOffset,
                 dispatched, log>>

\* The consumer was built with the client's default retry options: after a
\* crash the client connects and joins again by itself and reads on from
\* the offset of the group.
ConsumerRestarts ==
  /\ consumer.pc = "running"
  /\ consumer.loop = "crashed"
  /\ consumer' = [consumer EXCEPT !.conn = "open", !.loop = "on"]
  /\ offset' = ResumeOffset
  /\ UNCHANGED <<storeVars, topic, producerVars, groupVars, groupOffset,
                 dispatched, log>>

ConsumerOnModuleDestroyKeepsLoop ==
  /\ consumer.pc = "running"
  /\ consumer' = [consumer EXCEPT !.pc = "awaitDisconnect"]
  /\ UNCHANGED <<storeVars, topic, producerVars, groupVars, offset, groupOffset,
                 dispatched, log>>

\* onModuleDestroy, up to `await this.consumer.disconnect()`: the loop is
\* told to stop.
ConsumerOnModuleDestroy ==
  /\ consumer.pc = "running"
  /\ consumer' = [consumer EXCEPT !.pc = "awaitDisconnect", !.loop = "off"]
  /\ UNCHANGED <<storeVars, topic, producerVars, groupVars, offset, groupOffset,
                 dispatched, log>>

\* disconnect resolved: the connection is closed, onModuleDestroy returns.
ConsumerDisconnected ==
  /\ consumer.pc = "awaitDisconnect"
  /\ consumer' = [consumer EXCEPT !.pc = "stopped", !.conn = "closed"]
  /\ UNCHANGED <<storeVars, topic, producerVars, groupVars, offset, groupOffset,
                 dispatched, log>>

\* Some producer (this application's or any other) gets a message appended
\* to the topic.
Publish(value) ==
  /\ Len(topic) < MaxTopic
  /\ topic' = Append(topic,
       [n |-> 0, key |-> Interpolate(value, "type"), value |-> value])
  /\ UNCHANGED <<storeVars, producerVars, consumerVars, groupVars>>

\* The group id is fixed (GROUP_ID): an earlier run of the application has
\* read the topic up to k as this group and left its offset at the broker.
EarlierRun(k) ==
  /\ consumer.pc = "constructed"
  /\ groupOffset < k
  /\ k <= Len(topic)
  /\ groupOffset' = k
  /\ UNCHANGED <<storeVars, topic, producerVars, groupVars, consumer, offset,
                 dispatched,
                 log>>

NextConsumer ==
  \/ ConsumerOnModuleInit
  \/ ConsumerConnected
  \/ ConsumerSubscribed
  \/ ConsumerRuns
  \/ ConsumerInitFails
  \/ EachMessage
  \/ CommitOffsets
  \/ ConnectionLost
  \/ ConsumerRestarts
  \/ ConsumerOnModuleDestroy
  \/ ConsumerDisconnected
  \/ \E value \in TopicValues : Publish(value)
  \/ \E k \in 1..MaxTopic : EarlierRun(k)

SpecConsumer == Init /\ [][NextConsumer]_vars

\* While the loop is on and connected the client keeps fetching and handing
\* over what the topic holds, and after a crash it does restart.
ConsumerFairness == WF_vars(EachMessage) /\ WF_vars(ConsumerRestarts)

SpecConsumerFair == SpecConsumer /\ ConsumerFairness

\* ------------------------------------------------------ the consumer group
\* Several processes run the application.  Each constructs one consumer with
\* the same GROUP_ID, so they are the members of one group: the group
\* coordinator of the broker gives every partition of the topic to one of
\* the members that are running, and gives them out anew whenever a member
\* joins, leaves or is lost.

\* The topic exists: the broker has fixed its partitions, and with them the
\* partition the producer's partitioner sends each key to.
TopicReady == \A k \in EventKeys : partitioner[k] # NoPartition

TopicCreated(h) ==
  /\ ~TopicReady
  /\ partitioner' = h
  /\ UNCHANGED <<storeVars, topic, producerVars, consumerVars, members, owner,
                 committed, delivered>>

\* The partition of the message at position q of the topic, and its offset
\* there (the first message of a partition has offset 1).
PartitionOf(q) == partitioner[topic[q].key]

OffsetOf(q) ==
  Cardinality({r \in 1..q : PartitionOf(r) = PartitionOf(q)})

RunningMembers == {i \in Instances : members[i].pc = "running"}

\* The ways the coordinator can give the partitions to the members in r.
Assignments(r) ==
  IF r = {} THEN {[p \in Partitions |-> NoInstance]} ELSE [Partitions -> r]

MemberResumeFromStart(p) == 0

\* The offset a member starts to read a partition from that it was given:
\* the offset the broker keeps for the group and, without one, the start of
\* the partition (fromBeginning: true).
MemberResume(p) == IF committed[p] = NoOffset THEN 0 ELSE committed[p]

\* The members after member i has gone to position pc and the coordinator
\* has given the partitions out as a: who is given a partition it did not
\* have starts it from the offset of the group, who keeps one reads on, and
\* who holds one no longer has no position in it.
Rebalanced(i, pc, a) ==
  [j \in Instances |->
     [pc |-> IF j = i THEN pc ELSE members[j].pc,
      pos |-> [p \in Partitions |->
                 IF a[p] # j THEN 0
                 ELSE IF owner[p] # j THEN MemberResume(p)
                 ELSE members[j].pos[p]]]]

\* onModuleInit of process i, through to run resolved: its consumer has
\* joined the group.
MemberJoins(i, a) ==
  /\ TopicReady
  /\ members[i].pc = "constructed"
  /\ a \in Assignments(RunningMembers \cup {i})
  /\ members' = Rebalanced(i, "running", a)
  /\ owner' = a
  /\ UNCHANGED <<storeVars, topic, producerVars, consumerVars, partitioner,
                 committed, delivered>>

\* eachMessage in process i: the loop hands the next message of a partition
\* that i holds to handleMessage, which runs through.
MemberEachMessage(i, q) ==
  /\ members[i].pc = "running"
  /\ q \in 1..Len(topic)
  /\ owner[PartitionOf(q)] = i
  /\ OffsetOf(q) = members[i].pos[PartitionOf(q)] + 1
  /\ delivered' = delivered \cup
       {[instance |-> i, at |-> q, lines |-> HandleMessage(topic[q]).lines]}
  /\ members' = [members EXCEPT ![i].pos[PartitionOf(q)] = OffsetOf(q)]
  /\ UNCHANGED <<storeVars, topic, producerVars, consumerVars, partitioner,
                 owner, committed>>

\* The client of process i commits the offset of a partition it holds
\* (autoCommit), some time after the messages were handled.
MemberCommits(i, p) ==
  /\ members[i].pc = "running"
  /\ owner[p] = i
  /\ committed[p] # members[i].pos[p]
  /\ committed' = [committed EXCEPT ![p] = members[i].pos[p]]
  /\ UNCHANGED <<storeVars, topic, producerVars, consumerVars, partitioner,
                 members, owner, delivered>>

\* onModuleDestroy of process i, through to disconnect resolved: its
\* consumer has left the group.
MemberLeaves(i, a) ==
  /\ members[i].pc = "running"
  /\ a \in Assignments(RunningMembers \ {i})
  /\ members' = Rebalanced(i, "stopped", a)
  /\ owner' = a
  /\ UNCHANGED <<storeVars, topic, producerVars, consumerVars, partitioner,
                 committed, delivered>>

\* Process i dies, or is cut off from the broker for longer than its
\* session: the coordinator takes it out of the group.
MemberLost(i, a) ==
  /\ members[i].pc = "running"
  /\ a \in Assignments(RunningMembers \ {i})
  /\ members' = Rebalanced(i, "lost", a)
  /\ owner' = a
  /\ UNCHANGED <<storeVars, topic, producerVars, consumerVars, partitioner,
                 committed, delivered>>

\* A producer of the application gets an event appended to the topic.
ProducerPublishes(value) ==
  /\ TopicReady
  /\ Publish(value)

\* The group against a topic the application's producers write.
NextGroup ==
  \/ \E h \in [EventKeys -> Partitions] : TopicCreated(h)
  \/ \E value \in Envelopes : ProducerPublishes(value)
  \/ \E i \in Instances, a \in [Partitions -> Instances \cup {NoInstance}] :
       MemberJoins(i, a)
  \/ \E i \in Instances, q \in 1..MaxTopic : MemberEachMessage(i, q)
  \/ \E i \in Instances, p \in Partitions : MemberCommits(i, p)
  \/ \E i \in Instances, a \in [Partitions -> Instances \cup {NoInstance}] :
       MemberLeaves(i, a)
  \/ \E i \in Instances, a \in [Partitions -> Instances \cup {NoInstance}] :
       MemberLost(i, a)

SpecGroup == Init /\ [][NextGroup]_vars

\* ------------------------------------------------------------- history
MutationOps == {"create", "update", "remove"}

LookupOps == {"findOne", "update", "remove"}

\* Call c wrote the store.
Committed(c) == \E i \in 1..Len(mutations) : mutations[i].call = c

MutationBy(c) == mutations[CHOOSE i \in 1..Len(mutations) : mutations[i].call = c]

SendsBy(c) == {n \in 1..Len(sends) : sends[n].call = c}

CreatedIds == {mutations[i].id : i \in {j \in 1..Len(mutations) : mutations[j].op = "create"}}

RemovedIds == {mutations[i].id : i \in {j \in 1..Len(mutations) : mutations[j].op = "remove"}}

\* The state the last create or update of id wrote.
LatestWritten(id) ==
  LET w == {i \in 1..Len(mutations) :
              mutations[i].id = id /\ mutations[i].op \in {"create", "update"}}
  IN mutations[CHOOSE i \in w : \A j \in w : j <= i].state

\* The store shows the effect of mutation mu.
Reflects(mu) ==
  IF mu.op = "remove" THEN ~MapHas(products, mu.id)
  ELSE FindOne(products, mu.id) = mu.state

\* ---------------------------------------------------------------- C1
\* C1: every call that wrote the store has made exactly one publish attempt
\* once it is past its call of emit, a call that wrote nothing has made none,
\* and the payload of the attempt is the state the write left under the
\* identifier (created, updated) or the state the store held under it just
\* before the delete (deleted).
C1_OnePublishOfCurrentState ==
  \A c \in Calls :
    /\ ~Committed(c) => SendsBy(c) = {}
    /\ (Committed(c) /\ calls[c].pc \in {"awaitSend", "done"}) =>
         /\ Cardinality(SendsBy(c)) = 1
         /\ sends[SendOf(c)].payload = MutationBy(c).state

\* ---------------------------------------------------------------- C2
\* C2: a create, update or remove that wrote the store ends, for its caller,
\* as it does when the publish succeeds: create and update return the entity,
\* remove completes, also when the send was rejected.
C2_PublishFailureNotSeenByCaller ==
  \A c \in Calls :
    (calls[c].pc = "done" /\ Committed(c)) =>
      calls[c].result =
        IF calls[c].op = "remove" THEN Ok(Void) ELSE Ok(MutationBy(c).state)

\* ---------------------------------------------------------------- C3
\* C3: when the publish of a mutation has failed and no other mutation was
\* made since, the store holds exactly what that mutation produced: the
\* created or updated entity under its identifier, no entry for a removed one.
C3_NoRollback ==
  \A c \in Calls :
    (/\ calls[c].result = DeliveryFailed
     /\ mutations # << >>
     /\ mutations[Len(mutations)].call = c) =>
      Reflects(mutations[Len(mutations)])

C3_Witness ==
  \E c \in Calls :
    /\ calls[c].result = DeliveryFailed
    /\ calls[c].op = "update"
    /\ mutations[Len(mutations)].call = c
    /\ FindOne(products, calls[c].id) = calls[c].ent
    /\ calls[c].ent.name = "B"

\* ---------------------------------------------------------------- C4
\* C4: when a call is about to call emit, the store already shows its
\* mutation and the call has not published yet; every publish attempt made
\* so far follows the mutation of the same call, in the same order.
C4_MutationBeforePublish ==
  /\ \A c \in Calls :
       calls[c].pc = "emit" =>
         /\ Committed(c)
         /\ Reflects(MutationBy(c))
         /\ IF calls[c].op = "remove" THEN ~MapHas(products, calls[c].id)
            ELSE FindOne(products, calls[c].id) = calls[c].ent
         /\ SendsBy(c) = {}
  /\ Len(sends) <= Len(mutations)
  /\ \A n \in 1..Len(sends) : mutations[n].call = sends[n].call

C4_Witness ==
  \E c \in Calls :
    /\ calls[c].pc = "emit"
    /\ calls[c].op = "update"
    /\ FindOne(products, calls[c].id) = calls[c].ent
    /\ calls[c].ent.price = 2
    /\ SendsBy(c) = {}

\* ---------------------------------------------------------------- C5
\* C5: at most one create, update or remove against a given identifier of
\* the store is in flight at any time (calls whose lookup found no entity
\* are left out: they are on their way to NotFound).
C5_OneMutationInFlightPerId ==
  \A id \in Ids :
    Cardinality({c \in Calls : /\ InFlight(c)
                               /\ calls[c].op \in MutationOps
                               /\ calls[c].id = id
                               /\ calls[c].ent # NotFound}) <= 1

\* ---------------------------------------------------------------- C6
\* C6: findAll returns exactly the entities created and not removed, each
\* with the values its latest create or update wrote.
C6_ListIsCreatedNotRemoved ==
  LET list == FindAll(products) IN
    /\ {list[i].id : i \in 1..Len(list)} = CreatedIds \ RemovedIds
    /\ \A i \in 1..Len(list) : list[i] = LatestWritten(list[i].id)

\* ---------------------------------------------------------------- C7
\* C7: for calls made one after another, the publish attempts are, in order,
\* the mutations made: the n-th attempt has the event type of the n-th
\* mutation and the entity state of that step as payload, and only the
\* mutation whose emit is about to be called has no attempt yet.
C7_PublishInProgramOrder ==
  /\ Len(sends) <= Len(mutations)
  /\ Len(mutations) = Len(sends) + (IF Running THEN 1 ELSE 0)
  /\ \A n \in 1..Len(sends) :
       /\ sends[n].eventType =
            (CASE mutations[n].op = "create" -> "product.created"
               [] mutations[n].op = "update" -> "product.updated"
               [] mutations[n].op = "remove" -> "product.deleted")
       /\ sends[n].payload = mutations[n].state

C7_Witness ==
  /\ Len(sends) = 3
  /\ sends[1].eventType = "product.created"
  /\ sends[2].eventType = "product.updated"
  /\ sends[3].eventType = "product.deleted"
  /\ sends[2].payload.id = sends[1].payload.id
  /\ sends[3].payload = sends[2].payload
  /\ sends[2].payload # sends[1].payload

\* ---------------------------------------------------------------- C8
\* C8: of two messages with the same key in the topic, the one submitted
\* first to the producer was appended first.
C8_BrokerOrderPerKey ==
  \A a, b \in 1..Len(topic) :
    (a < b /\ topic[a].key = topic[b].key) => topic[a].n < topic[b].n

\* ---------------------------------------------------------------- C9
\* C9: findOne, update and remove on an identifier the store does not hold
\* fail with NotFound, change nothing in the store and publish nothing.
C9_LookupOfAbsent ==
  \A c \in Calls :
    (/\ calls[c].pc = "idle"
     /\ calls'[c].op \in LookupOps
     /\ ~MapHas(products, calls'[c].id)) =>
      /\ calls'[c].ent = NotFound
      /\ calls'[c].op = "findOne" => calls'[c].result = NotFoundException
      /\ products' = products
      /\ sends' = sends

C9_ResumeOfAbsent ==
  \A c \in Calls :
    (/\ calls[c].pc = "awaitFindOne"
     /\ calls[c].ent = NotFound
     /\ calls'[c] # calls[c]) =>
      /\ calls'[c].pc = "done"
      /\ calls'[c].result = NotFoundException
      /\ products' = products
      /\ sends' = sends

C9_NotFoundLeavesStore ==
  /\ [][C9_LookupOfAbsent]_vars
  /\ [][C9_ResumeOfAbsent]_vars
  /\ [](\A c \in Calls : calls[c].result = NotFoundException => ~Committed(c))

C9_Witness ==
  \E c, d \in Calls :
    /\ calls[c].op = "update" /\ calls[c].result = NotFoundException
    /\ calls[d].op = "remove" /\ calls[d].result = NotFoundException
    /\ products # << >>

\* ---------------------------------------------------------------- C10
\* C10: an identifier that create returned and that no remove has deleted
\* since it was created is found by findOne.
C10_CreatedStaysFound ==
  \A c \in Calls :
    (/\ calls[c].op = "create"
     /\ calls[c].result.kind = "ok"
     /\ calls[c].id \notin RemovedIds) =>
      FindOne(products, calls[c].id) # NotFound

C10_Witness ==
  \E c, d, e \in Calls :
    /\ calls[c].op = "create" /\ calls[c].result.kind = "ok"
    /\ calls[d].op = "update" /\ calls[d].id = calls[c].id
    /\ calls[d].result = DeliveryFailed
    /\ calls[e].op = "remove" /\ calls[e].id # calls[c].id
    /\ calls[e].pc = "done"
    /\ FindOne(products, calls[c].id) # NotFound

\* ---------------------------------------------------------------- C11
\* The write of update call c: the step from its awaited findOne to emit.
UpdateWrites(c) ==
  /\ calls[c].op = "update"
  /\ calls[c].pc = "awaitFindOne"
  /\ calls'[c].pc = "emit"

\* C11: an update of an entity the store holds changes, in the stored
\* entity, only the fields its body gives: name, description and price keep
\* the value the store held before the write when the body omits them and
\* take the given value otherwise, id and createdAt are kept, and updatedAt
\* does not go back.
C11_UpdateChangesOnlyGivenFields ==
  [][\A c \in Calls :
       (UpdateWrites(c) /\ MapHas(products, calls[c].id)) =>
         LET dto == calls[c].dto
             before == heap[MapGet(products, calls[c].id)]
             after == heap'[MapGet(products', calls[c].id)]
         IN /\ after.id = before.id
            /\ after.createdAt = before.createdAt
            /\ after.updatedAt >= before.updatedAt
            /\ after.name =
                 (IF dto.name = {} THEN before.name ELSE Pick(dto.name))
            /\ after.description =
                 (IF dto.description = {} THEN before.description
                  ELSE Pick(dto.description))
            /\ after.price =
                 (IF dto.price = {} THEN before.price ELSE Pick(dto.price))
    ]_vars

\* ---------------------------------------------------------------- C12
\* A dispatched message at position p left a console line.
Logged(p) == \E l \in log : l.at = p

\* No message brings the loop down (only a lost connection does), the loop
\* is past every message it newly dispatches and still on, and an envelope
\* that follows a dispatched message that is none is dispatched in the end,
\* unless the consumer is shut down first.
LoopGoesOn ==
  /\ [](consumer.loop = "crashed" => consumer.conn = "lost")
  /\ [][dispatched' # dispatched =>
          (offset' = offset + 1 /\ consumer'.loop = "on")]_vars
  /\ \A p, q \in 1..MaxTopic :
       (/\ p \in dispatched
        /\ p < q
        /\ q <= Len(topic)
        /\ topic[p].value \notin Envelopes
        /\ topic[q].value \in Envelopes)
         ~> (q \in dispatched \/ consumer.pc # "running")

C13_ReplayFromStart ==
  /\ [](consumer.join.fresh =>
          \A p \in dispatched : \A q \in 1..p : q \in dispatched)
  /\ consumer.join.fresh ~>
       \/ \A q \in 1..consumer.join.backlog : q \in dispatched
       \/ consumer.pc # "running"

C13_Witness ==
  /\ consumer.join = [fresh |-> TRUE, backlog |-> 3]
  /\ dispatched = {1, 2, 3}
  /\ topic[1].key = topic[3].key
  /\ topic[1].key # topic[2].key

\* ---------------------------------------------------------------- C14
\* The lifecycle positions that follow one another.
LifecycleSteps ==
  {<<"constructed", "awaitConnect">>, <<"awaitConnect", "awaitSubscribe">>,
   <<"awaitSubscribe", "awaitRun">>, <<"awaitRun", "running">>,
   <<"running", "awaitDisconnect">>, <<"awaitDisconnect", "stopped">>,
   <<"awaitConnect", "failed">>, <<"awaitSubscribe", "failed">>,
   <<"awaitRun", "failed">>}

\* C14: the consumer goes from constructed (Stopped) through awaiting
\* connect (Connecting), awaiting subscribe and awaiting run (Subscribed) to
\* running, and from running through awaiting disconnect to stopped:
\* subscribe is called only on an established connection, the loop is on
\* only after run has resolved, a message is handed to the handler only
\* while running, and the stopped consumer has closed its connection.
C14_SubscriberLifecycle ==
  /\ [][consumer'.pc # consumer.pc =>
          <<consumer.pc, consumer'.pc>> \in LifecycleSteps]_vars
  /\ [](consumer.pc \in {"awaitSubscribe", "awaitRun"} =>
          (consumer.conn = "open" /\ consumer.loop = "off"))
  /\ [](consumer.pc \in {"constructed", "awaitConnect"} =>
          (consumer.conn \in {"none", "connecting"} /\ consumer.loop = "off"))
  /\ [](consumer.loop = "on" => consumer.pc = "running")
  /\ [][(dispatched' # dispatched \/ log' # log) =>
          (consumer.pc = "running" /\ consumer'.pc = "running")]_vars
  /\ [](consumer.pc = "stopped" =>
          (consumer.conn = "closed" /\ consumer.loop = "off"))

C14_Witness ==
  /\ consumer.pc = "stopped"
  /\ consumer.conn = "closed"
  /\ dispatched = {1, 2}
  /\ Len(topic) = 3

\* ---------------------------------------------------------------- C15
\* C15: when the consumer's connection fails or is lost the service is in
\* its failed position, the connection does not come back by itself, and
\* from the failed position the consumer takes no step and is handed no
\* message.
C15_ConnectionLossIsTerminal ==
  /\ [](consumer.conn = "lost" => consumer.pc = "failed")
  /\ [][consumer.conn = "lost" => consumer'.conn # "open"]_vars
  /\ [][consumer.pc = "failed" =>
          (consumer' = consumer /\ dispatched' = dispatched
           /\ offset' = offset)]_vars

\* ---------------------------------------------------------------- C16
\* C16: the producer connects at most once and disconnects at most once; a
\* send is attempted only while the connection is established, never before
\* connect has resolved nor after onModuleDestroy has asked for the release;
\* and the release completes whatever sends are in flight.
C16_ProducerConnectionScoped ==
  /\ [](producer.connects <= 1 /\ producer.disconnects <= 1)
  /\ [][sends' # sends => producer.pc = "connected"]_vars
  /\ []((producer.pc = "disconnecting" /\ ~Running /\ microtasks = << >>) =>
          ENABLED ProducerDisconnected)

\* ---------------------------------------------------------------- C17
\* The state the store holds: its entities, field by field, in order.
StoredState == FindAll(products)

\* C17: a step in which the store itself writes nothing leaves the stored
\* state as it was: nothing a caller does to an entity that create, findOne,
\* update or findAll returned reaches the store.
C17_CallersHoldCopies ==
  [][mutations' = mutations => StoredState' = StoredState]_vars

\* ---------------------------------------------------------------- C18
\* The list the caller of findAll call c holds, as it reads now.
ListView(c) == [i \in 1..Len(handles[c]) |-> heap[handles[c][i]]]

\* C18: the list a findAll returned reads, after any later create, update
\* or remove, as it read when it was returned: same members, same order,
\* same field values.
C18_ListIsSnapshot ==
  \A c \in Calls :
    (calls[c].op = "findAll" /\ calls[c].pc = "done") =>
      ListView(c) = calls[c].result.value

C18_Witness ==
  \E c, d, e \in Calls :
    /\ calls[c].op = "findAll" /\ calls[c].pc = "done"
    /\ Len(calls[c].result.value) = 1
    /\ ListView(c) = calls[c].result.value
    /\ calls[d].op = "update" /\ calls[d].pc = "done" /\ c < d
    /\ calls[d].id = calls[c].result.value[1].id
    /\ calls[e].op = "create" /\ e < c
    /\ FindOne(products, calls[d].id) # calls[c].result.value[1]

\* ---------------------------------------------------------------- C19
\* C19: every stored entity has updatedAt >= createdAt, is stored under the
\* key that is its own id, and has the id and the createdAt its create gave
\* it; a create never gives an identifier that an earlier write or delete
\* of the store has used.
C19_StoredEntityInvariants ==
  /\ \A i \in 1..Len(products) :
       LET e == heap[products[i].value] IN
         /\ e.id = products[i].key
         /\ e.updatedAt >= e.createdAt
         /\ \E j \in 1..Len(mutations) :
              /\ mutations[j].op = "create"
              /\ mutations[j].state.id = e.id
              /\ mutations[j].state.createdAt = e.createdAt
  /\ \A i, j \in 1..Len(mutations) :
       (i < j /\ mutations[j].op = "create") =>
         mutations[i].id # mutations[j].id

C19_Witness ==
  \E c, d \in Calls :
    /\ calls[c].op = "create" /\ calls[d].op = "update" /\ calls[d].pc = "done"
    /\ calls[d].id = calls[c].id
    /\ MapHas(products, calls[c].id)
    /\ FindOne(products, calls[c].id).updatedAt >
         FindOne(products, calls[c].id).createdAt
    /\ FindOne(products, calls[c].id).name = "B"
    /\ calls[c].id \in RemovedIds

\* ---------------------------------------------------------------- C20
\* C20: every message handed to the broker has as its key the event type,
\* which is also the `type` field of its value; the value has exactly the
\* fields type, payload and timestamp; the type is one of product.created,
\* product.updated, product.deleted.
C20_MessageShape ==
  \A n \in 1..Len(sends) :
    LET m == sends[n].message IN
      /\ m.key = sends[n].eventType
      /\ m.value.type = m.key
      /\ DOMAIN m.value = {"type", "payload", "timestamp"}
      /\ m.key \in {"product.created", "product.updated", "product.deleted"}

C20_Witness ==
  /\ Len(sends) = 3
  /\ {sends[n].message.key : n \in 1..3} =
       {"product.created", "product.updated", "product.deleted"}
  /\ \A n \in 1..3 : sends[n].message.value.type = sends[n].message.key

\* ---------------------------------------------------------------- C21
\* A field read back from JSON is a Date: it is not the ISO string that
\* JSON.stringify wrote for one.
IsDate(v) == "iso" \notin DOMAIN v

\* The payload the consumer reads back is deep-equal to the entity: every
\* field has the entity's value, and createdAt and updatedAt are Dates.
DeepEqualProduct(parsed, entity) ==
  /\ parsed.id = entity.id
  /\ parsed.name = entity.name
  /\ parsed.description = entity.description
  /\ parsed.price = entity.price
  /\ IsDate(parsed.createdAt) /\ parsed.createdAt = entity.createdAt
  /\ IsDate(parsed.updatedAt) /\ parsed.updatedAt = entity.updatedAt

\* C21: for every message the producer was handed, parsing its value as the
\* consumer does gives a payload deep-equal to the entity that emit was
\* given: same values, and createdAt and updatedAt of the same kind.
C21_RoundTrip ==
  \A n \in 1..Len(sends) :
    LET parsed == JsonParse(sends[n].message.value) IN
      /\ ~parsed.threw
      /\ DeepEqualProduct(parsed.event.payload, sends[n].payload)

\* ---------------------------------------------------------------- C24
\* Update calls c and d have both written id, each giving a field the other
\* does not give.
BothUpdated(c, d) ==
  /\ c # d
  /\ calls[c].op = "update" /\ calls[d].op = "update"
  /\ calls[c].id = calls[d].id
  /\ Committed(c) /\ Committed(d)
  /\ calls[c].dto.name # {} /\ calls[d].dto.name = {}
  /\ calls[d].dto.price # {} /\ calls[c].dto.price = {}

\* The payload of the last updated event attempted for id.
LastUpdatedPayload(id) ==
  LET u == {n \in 1..Len(sends) : /\ sends[n].eventType = "product.updated"
                                   /\ sends[n].payload.id = id}
  IN sends[CHOOSE n \in u : \A k \in u : k <= n].payload

\* C24: once two updates of one stored entity that give different fields
\* have both written and both called emit, the stored entity has the field
\* values of both, and the payload of the last updated event is the stored
\* entity.
C24_NoLostUpdate ==
  \A c, d \in Calls :
    (/\ BothUpdated(c, d)
     /\ calls[c].pc \in {"awaitSend", "done"}
     /\ calls[d].pc \in {"awaitSend", "done"}
     /\ MapHas(products, calls[c].id)) =>
      LET stored == FindOne(products, calls[c].id) IN
        /\ stored.name = Pick(calls[c].dto.name)
        /\ stored.price = Pick(calls[d].dto.price)
        /\ LastUpdatedPayload(calls[c].id) = stored

\* ---------------------------------------------------------------- C25
\* The positions in sends of the attempts of one type about id.
SendsAbout(id, type) ==
  {n \in 1..Len(sends) : sends[n].eventType = type /\ sends[n].payload.id = id}

\* C25: an identifier that a remove has deleted is not in the store in any
\* later state, and no updated event about it is handed to the producer
\* after a deleted event about it.
C25_RemovedStaysRemoved ==
  \A id \in RemovedIds :
    /\ ~MapHas(products, id)
    /\ \A n \in SendsAbout(id, "product.deleted") :
         \A k \in SendsAbout(id, "product.updated") : k < n

\* ---------------------------------------------------------------- C26
\* C26: the publish attempts about one identifier are, in submission order,
\* one created event, then updated events, then at most one deleted event;
\* of the removes of one identifier at most one completes.
C26_EventOrderPerId ==
  \A id \in Ids :
    /\ Cardinality(SendsAbout(id, "product.created")) <= 1
    /\ Cardinality(SendsAbout(id, "product.deleted")) <= 1
    /\ \A n \in SendsAbout(id, "product.created") :
         \A k \in 1..Len(sends) : sends[k].payload.id = id => n <= k
    /\ \A n \in SendsAbout(id, "product.deleted") :
         \A k \in 1..Len(sends) : sends[k].payload.id = id => k <= n
    /\ Cardinality({c \in Calls : /\ calls[c].op = "remove"
                                   /\ calls[c].id = id
                                   /\ calls[c].result = Ok(Void)}) <= 1

\* ---------------------------------------------------------------- C23
\* The console lines of the handler invocation for the message at p.
LinesAt(p) == {[level |-> l.level, text |-> l.text] : l \in {k \in log : k.at = p}}

\* The invocation for the message at p has run to its end: the console has
\* every line handleMessage writes for that message.
Finished(p) ==
  LET lines == HandleMessage(topic[p]).lines
  IN LinesAt(p) = {lines[i] : i \in 1..Len(lines)}

\* onModuleDestroy has been called.
StopRequested == consumer.pc \in {"awaitDisconnect", "stopped"}

\* C23: from the call of onModuleDestroy on the loop is off and no step
\* hands a message to the handler or writes a handler's line; when
\* onModuleDestroy has returned the connection is closed; and every handler
\* invocation that began has run to its end, whether or not the consumer
\* was stopped after it.
C23_ShutdownStopsDispatch ==
  /\ [](StopRequested => consumer.loop = "off")
  /\ [][StopRequested' =>
          (dispatched' = dispatched /\ log' = log /\ offset' = offset)]_vars
  /\ [](consumer.pc = "stopped" => consumer.conn = "closed")
  /\ [](\A p \in dispatched : Finished(p))

\* The consumer was stopped after it had handled an envelope and before it
\* had handled the last message of the topic.
C23_Witness ==
  /\ consumer.pc = "stopped"
  /\ offset < Len(topic)
  /\ \E p \in dispatched :
       /\ topic[p].value \in Envelopes
       /\ Finished(p)
       /\ p + 1 \notin dispatched

\* ---------------------------------------------------------------- C22
\* The processes of the group that were handed the message at q.
DeliveredTo(q) == {d.instance : d \in {e \in delivered : e.at = q}}

\* The event type of the message at q.
TypeOf(q) == topic[q].value.type

\* A message is handed only to the running member that holds its partition
\* (and a partition has one holder).
HandedToOwner ==
  \A d \in delivered' \ delivered :
    /\ owner[PartitionOf(d.at)] = d.instance
    /\ members[d.instance].pc = "running"

====
